---- MODULE Spec2Model ----
(***************************************************************************)
(* Model of the lua2cpp runtime: the NaN-boxed TValue, the hybrid          *)
(* array/hash LuaTable (src/tests/cpp/runtime/lua_table.hpp) and the       *)
(* closure/upvalue engine (src/tests/cpp/runtime/lua_closure.hpp).         *)
(*                                                                         *)
(* Conventions                                                             *)
(*  - a TValue is the record [tag, i]: tag names the NaN-box tag, i is the *)
(*    payload (int32 for "int", address for "str", 0/1 for "bool", and for *)
(*    "num" the double in half units: i = 3 is the double 1.5);            *)
(*  - machine words wider than 31 bits are little-endian byte sequences;   *)
(*  - a uint32 counter c is kept as the integer congruent to it modulo     *)
(*    2^32 that lies nearest to zero (-1 stands for 4294967295).           *)
(***************************************************************************)
EXTENDS Integers, Sequences, FiniteSets, TLC

(***************************************************************************)
(* TValue                                                                  *)
(***************************************************************************)
TV(t, p) == [tag |-> t, i |-> p]
Nil == TV("nil", 0)
Boolean(b) == TV("bool", IF b THEN 1 ELSE 0)
Integer(n) == TV("int", n)
Number(h) == TV("num", h)
String(p) == TV("str", p)

isNil(v) == v = Nil
isInteger(v) == v.tag = "int"
isNumber(v) == v.tag = "num"
isString(v) == v.tag = "str"
Table(p) == TV("table", p)
Function(p) == TV("fn", p)
isTable(v) == v.tag = "table"

\* The C strings the modelled program holds, by address.  Addresses 1 and 4
\* hold equal contents ("a") at different addresses; 5..8 are the literals
\* "__add", "__sub", "__mul", "__div" of the arithmetic operators and 9 is
\* another "__add".
StrMem == <<
    <<97>>,
    <<98>>,
    <<97, 98>>,
    <<97>>,
    <<95, 95, 97, 100, 100>>,
    <<95, 95, 115, 117, 98>>,
    <<95, 95, 109, 117, 108>>,
    <<95, 95, 100, 105, 118>>,
    <<95, 95, 97, 100, 100>> >>

\* (int32_t)d for the double d = h/2: truncation toward zero.
toInt32(h) == IF h >= 0 THEN h \div 2 ELSE -((-h) \div 2)
\* (double)i == d
isExactInt(h) == 2 * toInt32(h) = h

TValueEq(a, b) ==
    IF a = b THEN TRUE
    ELSE IF isString(a) /\ isString(b) THEN StrMem[a.i] = StrMem[b.i]
    ELSE FALSE

\* operator!= compares the bits only
TValueNe(a, b) == a # b

(***************************************************************************)
(* Byte-limb arithmetic for the 32- and 64-bit hash computations           *)
(***************************************************************************)
RECURSIVE XorN(_, _, _)
XorN(a, b, n) ==
    IF n = 0 THEN 0
    ELSE (((a % 2) + (b % 2)) % 2) + 2 * XorN(a \div 2, b \div 2, n - 1)

XorW(a, b) == [k \in DOMAIN a |-> XorN(a[k], b[k], 8)]

ShrBytes(a, nb) ==
    [k \in DOMAIN a |-> IF k + nb <= Len(a) THEN a[k + nb] ELSE 0]

RECURSIVE SumTo(_, _)
SumTo(f, n) == IF n = 0 THEN 0 ELSE f[n] + SumTo(f, n - 1)

\* column k (1-based) of the schoolbook product of byte strings a and b
MulCol(a, b, k) ==
    SumTo([j \in 1..Len(a) |->
              IF k + 1 - j >= 1 /\ k + 1 - j <= Len(b)
              THEN a[j] * b[k + 1 - j] ELSE 0], Len(a))

RECURSIVE MulCarry(_, _, _, _, _)
MulCarry(a, b, k, carry, outLen) ==
    IF k > outLen THEN <<>>
    ELSE LET s == MulCol(a, b, k) + carry
         IN  <<(s % 256)>> \o MulCarry(a, b, k + 1, s \div 256, outLen)

\* the low outLen bytes of a * b
MulBytes(a, b, outLen) == MulCarry(a, b, 1, 0, outLen)

RECURSIVE BytesOfNat(_, _)
BytesOfNat(n, len) ==
    IF len = 0 THEN <<>> ELSE <<(n % 256)>> \o BytesOfNat(n \div 256, len - 1)

\* (uint32_t)i of an int32 i, as 4 bytes (two's complement)
U32Bytes(n) ==
    IF n >= 0 THEN BytesOfNat(n, 4)
    ELSE [k \in 1..4 |-> 255 - BytesOfNat(-n - 1, 4)[k]]

\* a 32-bit hash is carried as <<hash >> 7, hash & 0x7f>>
SplitHash(b) ==
    << ((b[4] * 256 + b[3]) * 256 + b[2]) * 2 + (b[1] \div 128), (b[1] % 128) >>

wymix(a, b) ==
    LET r == MulBytes(a, b, 16)
    IN  XorW(SubSeq(r, 1, 8), SubSeq(r, 9, 16))

WyP0 == <<47, 100, 189, 120, 100, 29, 118, 160>>
WyP1 == <<219, 40, 180, 160, 209, 126, 3, 231>>
HashSeed == <<21, 124, 74, 127, 185, 121, 55, 158>>
WangMul == <<59, 159, 93, 4>>

\* wyr4(p + off): 4 bytes of the string s read at offset off, zero-extended
wyr4(s, off) == [k \in 1..8 |-> IF k <= 4 THEN s[off + k] ELSE 0]
Shl32(w) == [k \in 1..8 |-> IF k <= 4 THEN 0 ELSE w[k - 4]]
OrW(a, b) == [k \in DOMAIN a |-> a[k] + b[k]]

\* wyhash(key, len, seed = 0) for len <= 16 (the strings of this model)
wyhash(s) ==
    LET len == Len(s)
        zero == [k \in 1..8 |-> 0]
        q == (len \div 8) * 4
        a == IF len >= 4 THEN OrW(Shl32(wyr4(s, 0)), wyr4(s, q))
             ELSE IF len > 0
                  THEN <<s[len], s[(len \div 2) + 1], s[1], 0, 0, 0, 0, 0>>
                  ELSE zero
        b == IF len >= 4
             THEN OrW(Shl32(wyr4(s, len - 4)), wyr4(s, len - 4 - q))
             ELSE zero
    IN  wymix(XorW(WyP1, BytesOfNat(len, 8)), wymix(XorW(a, WyP1), XorW(b, WyP0)))

hashString(s) == SubSeq(wyhash(s), 1, 4)

RECURSIVE Log2(_)
Log2(n) == IF n <= 1 THEN 0 ELSE 1 + Log2(n \div 2)

\* the 8 bytes of a TValue's bits, for the tags hashed by their raw bits
DoubleBits(h) ==
    IF h = 0 THEN [k \in 1..8 |-> 0]
    ELSE LET m == IF h < 0 THEN -h ELSE h
             p == Log2(m)
             biased == 1023 + p - 1
             f12 == (m - 2 ^ p) * 2 ^ (12 - p)
         IN  <<0, 0, 0, 0, 0, (f12 % 256),
               ((biased % 16) * 16) + (f12 \div 256),
               (IF h < 0 THEN 128 ELSE 0) + (biased \div 16)>>

RawBits(v) ==
    CASE v.tag = "num" -> DoubleBits(v.i)
      [] v.tag = "nil" -> <<0, 0, 0, 0, 0, 0, 248, 255>>
      [] v.tag = "bool" -> <<0, 0, 0, 0, 0, 0, IF v.i = 1 THEN 250 ELSE 249, 255>>

WangStep(k) == MulBytes(XorW(ShrBytes(k, 2), k), WangMul, 4)

\* a key hash that hashes a string's bits (its address), not its contents
hashTValueByBits(key) ==
    IF isInteger(key)
    THEN LET k2 == WangStep(WangStep(U32Bytes(key.i)))
         IN  SplitHash(XorW(ShrBytes(k2, 2), k2))
    ELSE IF isString(key)
    THEN SplitHash(SubSeq(wymix(<<key.i, 0, 0, 0, 0, 0, 252, 255>>, HashSeed), 1, 4))
    ELSE SplitHash(SubSeq(wymix(RawBits(key), HashSeed), 1, 4))

hashTValue(key) ==
    IF isInteger(key)
    THEN LET k2 == WangStep(WangStep(U32Bytes(key.i)))
         IN  SplitHash(XorW(ShrBytes(k2, 2), k2))
    ELSE IF isString(key) THEN SplitHash(hashString(StrMem[key.i]))
    ELSE SplitHash(SubSeq(wymix(RawBits(key), HashSeed), 1, 4))

(***************************************************************************)
(* Swiss-table hash part                                                   *)
(***************************************************************************)
GroupWidth == 16
CTRL_EMPTY == -128
CTRL_DELETED == -2
MinCapacity == 16

\* Bounds of the key universe whose hashes are tabulated once.
MaxIntKey == 40
MaxHalf == 5

AllKeys ==
    {Integer(n) : n \in -1..MaxIntKey} \cup {Number(h) : h \in -1..MaxHalf}
        \cup {String(p) : p \in DOMAIN StrMem} \cup {Nil, Boolean(TRUE)}

\* (@@ makes the table an explicit function, so each hash is computed once)
HashCache == [k \in AllKeys |-> hashTValue(k)] @@ [k \in {} |-> 0]
hashOf(key) == HashCache[key]

\* uint32 comparison a >= b on the signed representatives
U32GE(a, b) == IF (a < 0) = (b < 0) THEN a >= b ELSE a < 0
U32LT(a, b) == ~U32GE(a, b)

SetMin(S) == CHOOSE x \in S : \A y \in S : x <= y

NoSlot == 0
Hang == -1

EmptyHash ==
    [ctrl |-> <<>>, keys |-> <<>>, vals |-> <<>>,
     capacity |-> 0, count |-> 0, numGroups |-> 0]

HashInit(cap) ==
    [ctrl |-> [k \in 1..cap |-> CTRL_EMPTY],
     keys |-> [k \in 1..cap |-> Nil],
     vals |-> [k \in 1..cap |-> Nil],
     capacity |-> cap, count |-> 0, numGroups |-> cap \div GroupWidth]

h1(H, hash) == hash[1] % H.numGroups
h2(hash) == hash[2]

SlotIdx(g, i) == g * GroupWidth + i + 1

\* a match that compares the keys' bits, so a string by its address
matchH2SameBits(H, g, h, key) ==
    {i \in 0..(GroupWidth - 1) :
        H.ctrl[SlotIdx(g, i)] = h /\ H.keys[SlotIdx(g, i)] = key}

\* the lanes of group g whose control byte is h and whose key equals key
matchH2(H, g, h, key) ==
    {i \in 0..(GroupWidth - 1) :
        H.ctrl[SlotIdx(g, i)] = h /\ TValueEq(H.keys[SlotIdx(g, i)], key)}
matchEmpty(H, g) ==
    \E i \in 0..(GroupWidth - 1) : H.ctrl[SlotIdx(g, i)] = CTRL_EMPTY
matchAvailable(H, g) ==
    {i \in 0..(GroupWidth - 1) : H.ctrl[SlotIdx(g, i)] < 0}

\* HashPart::find: the slot index of key, NoSlot for nullptr, Hang when the
\* probe loop revisits its first group (no group on the chain has an Empty
\* slot, so the loop never leaves).
RECURSIVE findFrom(_, _, _, _)
findFrom(H, key, g, steps) ==
    LET m == matchH2(H, g, h2(hashOf(key)), key)
    IN  IF m # {} THEN SlotIdx(g, SetMin(m))
        ELSE IF matchEmpty(H, g) THEN NoSlot
        ELSE IF steps + 1 >= H.numGroups THEN Hang
        ELSE findFrom(H, key, (g + 1) % H.numGroups, steps + 1)

find(H, key) ==
    IF H.capacity = 0 THEN NoSlot
    ELSE findFrom(H, key, h1(H, hashOf(key)), 0)

\* HashPart::upsert: [H, idx, hang]
RECURSIVE upsertFrom(_, _, _, _, _)
upsertFrom(H, key, g, firstAvail, steps) ==
    LET m == matchH2(H, g, h2(hashOf(key)), key)
        avail == matchAvailable(H, g)
        fa == IF firstAvail = NoSlot /\ avail # {}
              THEN SlotIdx(g, SetMin(avail)) ELSE firstAvail
    IN  IF m # {} THEN [H |-> H, idx |-> SlotIdx(g, SetMin(m)), hang |-> FALSE]
        ELSE IF matchEmpty(H, g)
        THEN [H |-> [H EXCEPT !.ctrl[fa] = h2(hashOf(key)),
                              !.keys[fa] = key,
                              !.vals[fa] = Nil,
                              !.count = @ + 1],
              idx |-> fa, hang |-> FALSE]
        ELSE IF steps + 1 >= H.numGroups
        THEN [H |-> H, idx |-> NoSlot, hang |-> TRUE]
        ELSE upsertFrom(H, key, (g + 1) % H.numGroups, fa, steps + 1)

upsert(H, key) == upsertFrom(H, key, h1(H, hashOf(key)), NoSlot, 0)

needsRehashGT(H) ==
    H.capacity = 0 \/ (H.count # (H.capacity * 7) \div 8
                        /\ U32GE(H.count, (H.capacity * 7) \div 8))

needsRehash(H) ==
    H.capacity = 0 \/ U32GE(H.count, (H.capacity * 7) \div 8)

(***************************************************************************)
(* LuaTable                                                                *)
(***************************************************************************)
NilArray(n) == [k \in 1..n |-> Nil]

NewTable ==
    [array |-> <<>>, arraySize |-> 0, arrayCount |-> 0, hash |-> EmptyHash]

Pow2AtLeast(n) == 2 ^ (IF 2 ^ Log2(n) = n THEN Log2(n) ELSE Log2(n) + 1)
RoundCap(n) == IF n <= MinCapacity THEN MinCapacity ELSE Pow2AtLeast(n)

create(nArr, nHash) ==
    [array |-> IF nArr > 0 THEN NilArray(RoundCap(nArr)) ELSE <<>>,
     arraySize |-> IF nArr > 0 THEN RoundCap(nArr) ELSE 0,
     arrayCount |-> 0,
     hash |-> IF nHash > 0 THEN HashInit(RoundCap(nHash)) ELSE EmptyHash]

\* (uint32_t)(i - 1) < arraySize
inArray(T, i) == i >= 1 /\ i - 1 < T.arraySize

RECURSIVE rebuildFrom(_, _, _)
rebuildFrom(old, new, k) ==
    IF k > old.capacity THEN new
    ELSE IF old.ctrl[k] >= 0
    THEN LET u == upsert(new, old.keys[k])
         IN  rebuildFrom(old, [u.H EXCEPT !.vals[u.idx] = old.vals[k]], k + 1)
    ELSE rebuildFrom(old, new, k + 1)

rebuildHash(T, newCap) ==
    [T EXCEPT !.hash = rebuildFrom(T.hash, HashInit(newCap), 1)]

\* LuaTable::hashSet: [T, status]
hashSet(T, key, val) ==
    LET T1 == IF needsRehash(T.hash)
              THEN rebuildHash(T, IF T.hash.capacity = 0 THEN MinCapacity
                                  ELSE T.hash.capacity * 2)
              ELSE T
        u == upsert(T1.hash, key)
    IN  IF u.hang THEN [T |-> T1, status |-> "hang"]
        ELSE [T |-> [T1 EXCEPT !.hash =
                        [u.H EXCEPT !.vals[u.idx] = val,
                                    !.count = IF isNil(val) THEN @ - 1 ELSE @]],
              status |-> "ok"]

RECURSIVE rehashFrom(_, _)
rehashFrom(T, k) ==
    IF k > T.hash.capacity THEN T
    ELSE LET key == T.hash.keys[k]
         IN  IF T.hash.ctrl[k] >= 0 /\ isInteger(key) /\ inArray(T, key.i)
             THEN rehashFrom(
                    [T EXCEPT !.array[key.i] = T.hash.vals[k],
                              !.arrayCount = IF isNil(T.hash.vals[k]) THEN @ ELSE @ + 1,
                              !.hash.ctrl[k] = CTRL_DELETED,
                              !.hash.vals[k] = Nil,
                              !.hash.count = @ - 1], k + 1)
             ELSE rehashFrom(T, k + 1)

rehashIntegerKeys(T) == IF T.hash.capacity = 0 THEN T ELSE rehashFrom(T, 1)

growArrayNoCopy(T, needed) ==
    rehashIntegerKeys([T EXCEPT !.array = NilArray(RoundCap(needed)),
                                !.arraySize = RoundCap(needed)])

growArray(T, needed) ==
    LET newSize == RoundCap(needed)
    IN  rehashIntegerKeys(
            [T EXCEPT !.array = T.array \o NilArray(newSize - T.arraySize),
                      !.arraySize = newSize])

\* double -> integer key normalisation shared by rawget, rawset, rawfind
normKey(key) ==
    IF isNumber(key) /\ isExactInt(key.i) THEN Integer(toInt32(key.i)) ELSE key

NoReturn == TV("noreturn", 0)

rawget(T, key) ==
    IF isInteger(key) /\ inArray(T, key.i) THEN T.array[key.i]
    ELSE IF isNumber(key) /\ isExactInt(key.i) /\ inArray(T, toInt32(key.i))
    THEN T.array[toInt32(key.i)]
    ELSE LET k == IF isInteger(key) THEN key ELSE normKey(key)
             s == find(T.hash, k)
         IN  IF s = Hang THEN NoReturn
             ELSE IF s = NoSlot THEN Nil ELSE T.hash.vals[s]

\* LuaTable::rawset: [T, status], status "abort" for a failed assertion
rawset(T, key, val) ==
    IF isNil(key) THEN [T |-> T, status |-> "abort"]
    ELSE IF isInteger(key) /\ inArray(T, key.i)
    THEN [T |-> [T EXCEPT !.array[key.i] = val,
                          !.arrayCount =
                              IF isNil(T.array[key.i]) /\ ~isNil(val) THEN @ + 1
                              ELSE IF ~isNil(T.array[key.i]) /\ isNil(val) THEN @ - 1
                              ELSE @],
          status |-> "ok"]
    ELSE IF isInteger(key) /\ key.i = T.arraySize + 1 /\ ~isNil(val)
    THEN LET G == growArray(T, T.arraySize + 1)
         IN  [T |-> [G EXCEPT !.array[key.i] = val, !.arrayCount = @ + 1],
              status |-> "ok"]
    ELSE hashSet(T, IF isInteger(key) THEN key ELSE normKey(key), val)

RECURSIVE bsearch(_, _, _)
bsearch(arr, lo, hi) ==
    IF lo >= hi THEN lo
    ELSE LET mid == (lo + hi) \div 2
         IN  IF isNil(arr[mid + 1]) THEN bsearch(arr, lo, mid)
             ELSE bsearch(arr, mid + 1, hi)

RECURSIVE lengthFrom(_, _)
lengthFrom(T, j) ==
    LET s == find(T.hash, Integer(j))
    IN  IF s = Hang THEN Hang
        ELSE IF s = NoSlot \/ isNil(T.hash.vals[s]) THEN j - 1
        ELSE lengthFrom(T, j + 1)

length(T) ==
    IF T.arraySize > 0
    THEN IF ~isNil(T.array[T.arraySize]) THEN lengthFrom(T, T.arraySize + 1)
         ELSE bsearch(T.array, 0, T.arraySize)
    ELSE lengthFrom(T, 1)

get(T, n) == rawget(T, Integer(n))
set(T, n, v) == rawset(T, Integer(n), v)

\* TValue::operator[](double) followed by TableSlotProxy::operator=(TValue)
indexAssign(T, h, val) ==
    rawset(T, IF isExactInt(h) THEN Integer(toInt32(h)) ELSE Number(h), val)

\* LuaTable::rawfind: where the pointer it returns points, [loc, i], with
\* loc "null" for nullptr and "hang" for a probe that never returns
rawfind(T, key) ==
    IF isInteger(key) /\ key.i >= 1 /\ key.i <= T.arraySize
    THEN IF isNil(T.array[key.i]) THEN [loc |-> "null", i |-> 0]
         ELSE [loc |-> "array", i |-> key.i]
    ELSE LET s == find(T.hash, normKey(key))
         IN  IF s = Hang THEN [loc |-> "hang", i |-> 0]
             ELSE IF s = NoSlot THEN [loc |-> "null", i |-> 0]
             ELSE [loc |-> "hash", i |-> s]

\* the key of the proxy TValue::operator[] builds for an int32_t, double or
\* const char* index
proxyKey(k) == normKey(k)

\* a read that obtains its slot the way a write does (rawsetref)
proxyReadEager(T, k) ==
    LET key == proxyKey(k)
    IN  IF isInteger(key) /\ inArray(T, key.i)
        THEN [T |-> T, res |-> T.array[key.i]]
        ELSE LET T1 == IF needsRehash(T.hash)
                       THEN rebuildHash(T, IF T.hash.capacity = 0 THEN MinCapacity
                                           ELSE T.hash.capacity * 2)
                       ELSE T
                 u == upsert(T1.hash, key)
             IN  IF u.hang THEN [T |-> T1, res |-> NoReturn]
                 ELSE [T |-> [T1 EXCEPT !.hash = u.H], res |-> u.H.vals[u.idx]]

\* TValue::operator[] followed by TableSlotProxy::operator TValue: the table
\* after the read and the value read
proxyRead(T, k) ==
    LET p == rawfind(T, proxyKey(k))
    IN  [T |-> T,
         res |-> CASE p.loc = "array" -> T.array[p.i]
                   [] p.loc = "hash" -> T.hash.vals[p.i]
                   [] p.loc = "hang" -> NoReturn
                   [] OTHER -> Nil]

\* LuaTable::findHashPos: the group where the probe for key stops
RECURSIVE findHashPosFrom(_, _, _, _)
findHashPosFrom(H, key, g, steps) ==
    IF matchH2(H, g, h2(hashOf(key)), key) # {} THEN g
    ELSE IF matchEmpty(H, g) THEN g
    ELSE IF steps + 1 >= H.numGroups THEN Hang
    ELSE findHashPosFrom(H, key, (g + 1) % H.numGroups, steps + 1)

findHashPos(T, key) ==
    IF T.hash.capacity = 0 THEN 0
    ELSE findHashPosFrom(T.hash, key, h1(T.hash, hashOf(key)), 0)

NotFound == [found |-> "false", key |-> Nil, val |-> Nil]
Found(k, v) == [found |-> "true", key |-> k, val |-> v]

\* ~0u as the afterGroup argument of nextInHash
NoGroup == -1

\* LuaTable::nextInHash: the first slot with a non-nil value at or after
\* lane 0 of group 0 (afterGroup = NoGroup) or lane 1 of group afterGroup
nextInHash(T, afterGroup) ==
    LET startG == IF afterGroup = NoGroup THEN 0 ELSE afterGroup
        first == IF afterGroup = NoGroup THEN SlotIdx(startG, 0) ELSE SlotIdx(startG, 1)
        hits == {s \in first..T.hash.capacity :
                    T.hash.ctrl[s] >= 0 /\ ~isNil(T.hash.vals[s])}
    IN  IF T.hash.capacity = 0 \/ hits = {} THEN NotFound
        ELSE Found(T.hash.keys[SetMin(hits)], T.hash.vals[SetMin(hits)])

\* the array scan of next from 0-based index from
nextInArray(T, from) ==
    LET hits == {i \in (from + 1)..T.arraySize : ~isNil(T.array[i])}
    IN  IF hits = {} THEN nextInHash(T, NoGroup)
        ELSE Found(Integer(SetMin(hits)), T.array[SetMin(hits)])

\* LuaTable::next: [found, key, val]; found is "true" or "false" as returned,
\* key and val the caller's variables after a call that returned true, and
\* found is "hang" when the call never returns
next(T, key) ==
    IF isNil(key) THEN nextInArray(T, 0)
    ELSE IF isInteger(key) /\ key.i >= 1 /\ key.i <= T.arraySize
    THEN nextInArray(T, key.i)
    ELSE IF T.hash.capacity = 0 THEN NotFound
    ELSE LET g == findHashPos(T, key)
         IN  IF g = Hang THEN [found |-> "hang", key |-> Nil, val |-> Nil]
             ELSE nextInHash(T, g)

\* LuaTable::metatable == nullptr
NoTable == TV("nullptr", 0)

\* TValue::asNumber in half-units; no string of StrMem parses as a number,
\* and a table, function or nil gives 0.0
asNumber(v) ==
    IF isNumber(v) THEN v.i ELSE IF isInteger(v) THEN 2 * v.i ELSE 0

\* TValue::call: what the handler f returns for (a, b), kept symbolic; Nil
\* when f is not a function
call(f, a, b) ==
    IF f.tag = "fn" THEN TV("ret", <<f.i, a, b>>) ELSE Nil

\* std::nullopt
NoHandler == TV("nullopt", 0)

\* a lookup that asks the second operand's metatable first
get_metamethodSecondFirst(M, a, b, name) ==
    LET ma == IF isTable(a) /\ M[a.i] # NoTable THEN rawget(M[a.i], String(name)) ELSE Nil
        mb == IF isTable(b) /\ M[b.i] # NoTable THEN rawget(M[b.i], String(name)) ELSE Nil
    IN  IF ~isNil(mb) THEN mb ELSE IF ~isNil(ma) THEN ma ELSE NoHandler

\* get_metamethod(a, b, name), M the metatable of each table object
get_metamethod(M, a, b, name) ==
    LET ma == IF isTable(a) /\ M[a.i] # NoTable THEN rawget(M[a.i], String(name)) ELSE Nil
        mb == IF isTable(b) /\ M[b.i] # NoTable THEN rawget(M[b.i], String(name)) ELSE Nil
    IN  IF ~isNil(ma) THEN ma ELSE IF ~isNil(mb) THEN mb ELSE NoHandler

\* the string literal each operator passes to get_metamethod
OpName(op) ==
    CASE op = "+" -> 5 [] op = "-" -> 6 [] op = "*" -> 7 [] op = "/" -> 8

\* Number(asNumber() op o.asNumber()) in half-units
arith(op, x, y) ==
    CASE op = "+" -> Number(x + y)
      [] op = "-" -> Number(x - y)
      [] op = "*" -> Number((x * y) \div 2)
      [] op = "/" -> Number((2 * x) \div y)

\* TValue::operator+, -, *, /
operator(M, op, a, b) ==
    LET mm == IF isTable(a) \/ isTable(b)
              THEN get_metamethod(M, a, b, OpName(op)) ELSE NoHandler
    IN  IF mm # NoHandler THEN call(mm, a, b)
        ELSE arith(op, asNumber(a), asNumber(b))

(***************************************************************************)
(* State                                                                   *)
(***************************************************************************)
VARIABLES
    tbl,        \* the LuaTable under test
    tstatus,    \* "ok", "abort" (assertion failed), "hang" (probe never returns)
    tlast,      \* the last table call: [op, key, val, res]
    drv,        \* the calling program: [cursor, skipped, written]
    meta,       \* the metatable of table object 1 and of table object 2
    stack,      \* the caller-owned call stack, slot addresses 1..StackSize
    upv,        \* the UpVal objects ever allocated, by id
    openList,   \* head of the thread's open-upvalue list (0 = nullptr)
    cls,        \* the LuaClosure objects ever allocated, by id
    ustatus,    \* "ok" or "abort" (assertion failed)
    ulast       \* the last closure-engine call and the object it returned or acted
                \* on (for closeUpvalues, how many upvalues it closed)

tvars == <<tbl, tstatus, tlast, drv, meta>>
uvars == <<stack, upv, openList, cls, ustatus, ulast>>
vars == <<tbl, tstatus, tlast, drv, meta, stack, upv, openList, cls, ustatus, ulast>>


NoCall == [op |-> "none", key |-> Nil, val |-> Nil, res |-> Nil]
Call(o, k, v, r) == [op |-> o, key |-> k, val |-> v, res |-> r]
Drv0 == [cursor |-> 0, skipped |-> 0, written |-> <<>>]

\* How many times the explored runs may double the hash part beyond 16 slots.
MaxDoublings == 0
MaxHashCap == MinCapacity * (2 ^ MaxDoublings)

V1 == Integer(7)

StackSize == 2

NoUCall == [op |-> "none", res |-> 0]
UCall(o, r) == [op |-> o, res |-> r]

InitTable ==
    /\ tbl = create(0, 0)
    /\ tstatus = "ok"
    /\ tlast = NoCall
    /\ drv = Drv0
    /\ meta = <<NoTable, NoTable>>
    /\ stack = [a \in 1..StackSize |-> Nil]
    /\ upv = <<>>
    /\ openList = 0
    /\ cls = <<>>
    /\ ustatus = "ok"
    /\ ulast = NoUCall

(***************************************************************************)
(* Spec: a program calling rawset, operator[]= and rawget with any keys    *)
(***************************************************************************)
GenKeys ==
    {Nil, Integer(1), Number(2), Number(3), String(1)}
GenVals == {Nil, V1}
GenDoubles == {2}

RawSet(k, v) ==
    /\ tstatus = "ok"
    /\ \E r \in {rawset(tbl, k, v)} :
           /\ r.T.hash.capacity <= MaxHashCap
           /\ tbl' = r.T
           /\ tstatus' = r.status
    /\ tlast' = Call("rawset", k, v, Nil)
    /\ UNCHANGED <<drv, meta, uvars>>

IndexAssign(h, v) ==
    /\ tstatus = "ok"
    /\ \E r \in {indexAssign(tbl, h, v)} :
           /\ r.T.hash.capacity <= MaxHashCap
           /\ tbl' = r.T
           /\ tstatus' = r.status
    /\ tlast' = Call("index", Number(h), v, Nil)
    /\ UNCHANGED <<drv, meta, uvars>>

RawGet(k) ==
    /\ tstatus = "ok"
    /\ \E r \in {rawget(tbl, k)} :
           /\ tlast' = Call("rawget", k, Nil, r)
           /\ tstatus' = IF r = NoReturn THEN "hang" ELSE "ok"
    /\ UNCHANGED <<tbl, drv, meta, uvars>>

IndexRead(k) ==
    /\ tstatus = "ok"
    /\ \E r \in {proxyRead(tbl, k)} :
           /\ r.T.hash.capacity <= MaxHashCap
           /\ tbl' = r.T
           /\ tlast' = Call("read", k, Nil, r.res)
           /\ tstatus' = IF r.res = NoReturn THEN "hang" ELSE "ok"
    /\ UNCHANGED <<drv, meta, uvars>>

Init == InitTable

Next ==
    \/ \E k \in GenKeys, v \in GenVals : RawSet(k, v)
    \/ \E h \in GenDoubles, v \in GenVals : IndexAssign(h, v)
    \/ \E k \in GenKeys : RawGet(k)
    \/ \E k \in GenKeys \ {Nil} : IndexRead(k)

Spec == Init /\ [][Next]_vars

(***************************************************************************)
(* SpecSeq: a program that fills a fresh table with keys 1, 2, 3, ... in   *)
(* increasing order (the "insert keys 1..20" scenario)                     *)
(***************************************************************************)
MaxSeq == 33
\* the first MaxAlt keys choose between two values, later keys have one
MaxAlt == 5

SeqVals(k) == IF k <= MaxAlt THEN {Integer(100 + k), String(2)} ELSE {Integer(100 + k)}

SeqSet(v) ==
    /\ tstatus = "ok"
    /\ drv.cursor < MaxSeq
    /\ LET r == set(tbl, drv.cursor + 1, v)
       IN  /\ tbl' = r.T
           /\ tstatus' = r.status
    /\ tlast' = Call("rawset", Integer(drv.cursor + 1), v, Nil)
    /\ drv' = [drv EXCEPT !.cursor = @ + 1, !.written = Append(@, v)]
    /\ UNCHANGED <<meta, uvars>>

NextSeq == \E v \in SeqVals(drv.cursor + 1) : SeqSet(v)

SpecSeq == InitTable /\ [][NextSeq]_vars

(***************************************************************************)
(* SpecIns: a program that only inserts (non-nil values): it walks the key *)
(* list InsKey(1), InsKey(2), ... and inserts each key or skips it         *)
(***************************************************************************)
MaxIns == 22
MaxSkips == 2

InsKey(n) ==
    IF n = MaxIns THEN Integer(17)
    ELSE CASE n = 1 -> Integer(2)
           [] n = 2 -> Integer(3)
           [] n = 3 -> Number(3)
           [] n = 4 -> String(1)
           [] n = 5 -> Integer(1)
           [] n = 6 -> Number(4)
           [] OTHER -> Integer(11 + n)

Insert ==
    /\ tstatus = "ok"
    /\ drv.cursor < MaxIns
    /\ LET r == rawset(tbl, InsKey(drv.cursor + 1), V1)
       IN  /\ tbl' = r.T
           /\ tstatus' = r.status
    /\ tlast' = Call("rawset", InsKey(drv.cursor + 1), V1, Nil)
    /\ drv' = [drv EXCEPT !.cursor = @ + 1]
    /\ UNCHANGED <<meta, uvars>>

Skip ==
    /\ tstatus = "ok"
    /\ drv.cursor < MaxIns
    /\ drv.skipped < MaxSkips
    /\ drv' = [drv EXCEPT !.cursor = @ + 1, !.skipped = @ + 1]
    /\ UNCHANGED <<tbl, tstatus, tlast, meta, uvars>>

NextIns == Insert \/ Skip

SpecIns == InitTable /\ [][NextIns]_vars

(***************************************************************************)
(* SpecFill: a program that writes keys 1, 2, 3, ... or 2, 3, 4, ...,      *)
(* mostly with nil, and reads keys and the length in between               *)
(***************************************************************************)
MaxFill == 17

FillVals(k) == IF k <= MaxAlt THEN {Nil, V1} ELSE {Nil}

FillSet(v) ==
    /\ tstatus = "ok"
    /\ drv.cursor < MaxFill
    /\ LET r == set(tbl, drv.cursor + 1, v)
       IN  /\ tbl' = r.T
           /\ tstatus' = r.status
    /\ tlast' = Call("rawset", Integer(drv.cursor + 1), v, Nil)
    /\ drv' = [drv EXCEPT !.cursor = @ + 1]
    /\ UNCHANGED <<meta, uvars>>

FillGet(k) ==
    /\ tstatus = "ok"
    /\ LET r == get(tbl, k)
       IN  /\ tlast' = Call("rawget", Integer(k), Nil, r)
           /\ tstatus' = IF r = NoReturn THEN "hang" ELSE "ok"
    /\ UNCHANGED <<tbl, drv, meta, uvars>>

\* the program starts at key 2
FillSkip ==
    /\ tstatus = "ok"
    /\ drv.cursor = 0
    /\ drv' = [drv EXCEPT !.cursor = @ + 1, !.skipped = @ + 1]
    /\ UNCHANGED <<tbl, tstatus, tlast, meta, uvars>>

FillLength ==
    /\ tstatus = "ok"
    /\ LET n == length(tbl)
       IN  /\ tlast' = Call("length", Nil, Nil, IF n = Hang THEN NoReturn ELSE Integer(n))
           /\ tstatus' = IF n = Hang THEN "hang" ELSE "ok"
    /\ UNCHANGED <<tbl, drv, meta, uvars>>

NextFill ==
    \/ \E v \in FillVals(drv.cursor + 1) : FillSet(v)
    \/ \E k \in 1..(MaxFill + 1) : FillGet(k)
    \/ FillSkip
    \/ FillLength

SpecFill == InitTable /\ [][NextFill]_vars

(***************************************************************************)
(* SpecEq: a program that, once, compares two values, hashes both, and     *)
(* stores the first one as a key of a fresh table                          *)
(***************************************************************************)
EqVals == AllKeys

EqCall(a, b) ==
    [op |-> "eq", key |-> a, val |-> b, res |-> Boolean(TValueEq(a, b)),
     ne |-> Boolean(TValueNe(a, b)), ha |-> hashOf(a), hb |-> hashOf(b)]

Compare(a, b) ==
    /\ tstatus = "ok"
    /\ tlast = NoCall
    /\ tlast' = EqCall(a, b)
    /\ tbl' = IF isNil(a) THEN NewTable ELSE rawset(NewTable, a, V1).T
    /\ UNCHANGED <<tstatus, drv, meta, uvars>>

NextEq == \E a \in EqVals, b \in EqVals : Compare(a, b)

SpecEq == InitTable /\ [][NextEq]_vars

(***************************************************************************)
(* SpecNext: a program that builds a table with a few rawset calls and     *)
(* then traverses it: key = nil; while (t.next(key, val)) ...              *)
(***************************************************************************)
MaxBuild == 4
MaxTrav == 5

BuildKeys == {Integer(1), Integer(2), Number(3), String(1), String(2)}

Traversing == tlast.op = "next"

\* the caller's key variable: Nil before the first call, then the last key
\* next stored in it
TravKey == IF drv.written = <<>> THEN Nil ELSE drv.written[Len(drv.written)]

BuildSet(k, v) ==
    /\ tstatus = "ok"
    /\ ~Traversing
    /\ drv.cursor < MaxBuild
    /\ LET r == rawset(tbl, k, v)
       IN  /\ tbl' = r.T
           /\ tstatus' = r.status
    /\ tlast' = Call("rawset", k, v, Nil)
    /\ drv' = [drv EXCEPT !.cursor = @ + 1]
    /\ UNCHANGED <<meta, uvars>>

TravNext ==
    /\ tstatus = "ok"
    /\ Len(drv.written) < MaxTrav
    /\ ~(Traversing /\ tlast.res = Boolean(FALSE))
    /\ LET r == next(tbl, TravKey)
       IN  /\ tstatus' = IF r.found = "hang" THEN "hang" ELSE "ok"
           /\ tlast' = Call("next", TravKey, r.val,
                            IF r.found = "hang" THEN NoReturn ELSE Boolean(r.found = "true"))
           /\ drv' = IF r.found = "true"
                     THEN [drv EXCEPT !.written = Append(@, r.key)]
                     ELSE drv
    /\ UNCHANGED <<tbl, meta, uvars>>

NextNext ==
    \/ \E k \in BuildKeys, v \in GenVals : BuildSet(k, v)
    \/ TravNext

SpecNext == InitTable /\ [][NextNext]_vars

(***************************************************************************)
(* SpecMeta: a program with two table objects that gives them metatables,  *)
(* stores and removes "__add" and "__mul" handlers and applies operators   *)
(***************************************************************************)
MaxHandlerWrites == 3
Operands == {Table(1), Table(2), Number(2), Integer(2)}
Ops == {"+", "-", "*", "/"}

SetMetatable(t) ==
    /\ meta[t] = NoTable
    /\ meta' = [meta EXCEPT ![t] = create(0, 0)]
    /\ tlast' = Call("setmetatable", Table(t), Nil, Nil)
    /\ UNCHANGED <<tbl, tstatus, drv, uvars>>

\* mt[name] = f: the handler of table object t is the function object t
SetHandler(t, name, f) ==
    /\ meta[t] # NoTable
    /\ drv.cursor < MaxHandlerWrites
    /\ drv' = [drv EXCEPT !.cursor = @ + 1]
    /\ meta' = [meta EXCEPT ![t] = rawset(meta[t], String(name), f).T]
    /\ tlast' = Call("sethandler", String(name), f, Nil)
    /\ UNCHANGED <<tbl, tstatus, uvars>>

\* the program does not divide by zero where no handler takes the division
Arith(op, a, b) ==
    /\ (op = "/" /\ asNumber(b) = 0) => get_metamethod(meta, a, b, OpName(op)) # NoHandler
    /\ tlast' = Call(op, a, b, operator(meta, op, a, b))
    /\ UNCHANGED <<tbl, tstatus, drv, meta, uvars>>

NextMeta ==
    \/ \E t \in 1..2 : SetMetatable(t)
    \/ \E t \in 1..2, name \in {7, 9}, f \in {1, 0} :
          SetHandler(t, name, IF f = 1 THEN Function(t) ELSE Nil)
    \/ \E op \in Ops, a \in Operands, b \in Operands : Arith(op, a, b)

SpecMeta == InitTable /\ [][NextMeta]_vars

(***************************************************************************)
(* SpecGrow: a program that writes a few integer, float and string keys,   *)
(* among them the key one past a 16-slot array part                        *)
(***************************************************************************)
MaxGrowWrites == 4
GrowKeys == {Integer(1), Number(2), Integer(17), String(1), String(4)}

GrowSet(k, v) ==
    /\ tstatus = "ok"
    /\ drv.cursor < MaxGrowWrites
    /\ \E r \in {rawset(tbl, k, v)} :
           /\ r.T.hash.capacity <= MaxHashCap
           /\ tbl' = r.T
           /\ tstatus' = r.status
    /\ tlast' = Call("rawset", k, v, Nil)
    /\ drv' = [drv EXCEPT !.cursor = @ + 1]
    /\ UNCHANGED <<meta, uvars>>

NextGrow == \E k \in GrowKeys, v \in GenVals : GrowSet(k, v)

SpecGrow == InitTable /\ [][NextGrow]_vars

(***************************************************************************)
(* Closure / upvalue engine                                                *)
(***************************************************************************)
NULL == 0
\* UpVal::val pointing at the upvalue's own `closed` field
SelfPtr == 0

\* heap budget: upvalues and closures allocated over a run
MaxObjects == 3
UVals == {Nil, Integer(1)}

\* UpVal::create; `closes` is a history field counting Open -> Closed steps
UpValCreate(slot) ==
    [refcount |-> 1, state |-> "Open", val |-> slot, stackSlot |-> slot,
     openNext |-> NULL, closed |-> Nil, freed |-> FALSE, closes |-> 0]

\* UpVal::get / set: always through the val pointer
UpValGet(S, U, u) == IF U[u].val = SelfPtr THEN U[u].closed ELSE S[U[u].val]

UpValSetSelfOnly(S, U, u, v) == [S |-> S, U |-> [U EXCEPT ![u].closed = v]]

UpValSet(S, U, u, v) ==
    IF U[u].val = SelfPtr THEN [S |-> S, U |-> [U EXCEPT ![u].closed = v]]
    ELSE [S |-> [S EXCEPT ![U[u].val] = v], U |-> U]

\* UpVal::close without its assertion
UpValCloseNoAssert(S, U, u) ==
    [U |-> [U EXCEPT ![u].closed = UpValGet(S, U, u),
                     ![u].val = SelfPtr,
                     ![u].state = "Closed",
                     ![u].stackSlot = NULL,
                     ![u].closes = @ + 1],
     status |-> "ok"]

\* UpVal::close that redirects val without copying the stack slot
UpValCloseNoCopy(S, U, u) ==
    IF U[u].state # "Open" THEN [U |-> U, status |-> "abort"]
    ELSE [U |-> [U EXCEPT ![u].val = SelfPtr,
                          ![u].state = "Closed",
                          ![u].stackSlot = NULL,
                          ![u].closes = @ + 1],
          status |-> "ok"]

\* UpVal::close that copies the value but leaves val at the stack slot
UpValCloseNoRedirect(S, U, u) ==
    IF U[u].state # "Open" THEN [U |-> U, status |-> "abort"]
    ELSE [U |-> [U EXCEPT ![u].closed = UpValGet(S, U, u),
                          ![u].state = "Closed",
                          ![u].stackSlot = NULL,
                          ![u].closes = @ + 1],
          status |-> "ok"]

\* UpVal::close: [U, status]
UpValClose(S, U, u) ==
    IF U[u].state # "Open" THEN [U |-> U, status |-> "abort"]
    ELSE [U |-> [U EXCEPT ![u].closed = UpValGet(S, U, u),
                          ![u].val = SelfPtr,
                          ![u].state = "Closed",
                          ![u].stackSlot = NULL,
                          ![u].closes = @ + 1],
          status |-> "ok"]

\* a walk that stops at the first upvalue at or below the slot without
\* recognising an equal one
RECURSIVE findWalkNoShare(_, _, _, _)
findWalkNoShare(U, prev, cur, slot) ==
    IF cur = NULL THEN [found |-> FALSE, prev |-> prev, cur |-> cur]
    ELSE IF U[cur].stackSlot <= slot THEN [found |-> FALSE, prev |-> prev, cur |-> cur]
    ELSE findWalkNoShare(U, cur, U[cur].openNext, slot)

\* the walk of findOrCreateUpVal: pp is &openList (prev = NULL) or
\* &upv[prev].openNext; yields [found, prev, cur]
RECURSIVE findWalk(_, _, _, _)
findWalk(U, prev, cur, slot) ==
    IF cur = NULL THEN [found |-> FALSE, prev |-> prev, cur |-> cur]
    ELSE IF U[cur].stackSlot < slot THEN [found |-> FALSE, prev |-> prev, cur |-> cur]
    ELSE IF U[cur].stackSlot = slot THEN [found |-> TRUE, prev |-> prev, cur |-> cur]
    ELSE findWalk(U, cur, U[cur].openNext, slot)

\* findOrCreateUpVal that links a new upvalue at the head of the list
findOrCreateUpValAtHead(U, head, slot) ==
    LET w == findWalk(U, NULL, head, slot)
        new == Len(U) + 1
    IN  IF w.found THEN [U |-> U, head |-> head, uv |-> w.cur]
        ELSE [U |-> Append(U, [UpValCreate(slot) EXCEPT !.openNext = head]),
              head |-> new, uv |-> new]

\* findOrCreateUpVal(openList, slot): [U, head, uv]
findOrCreateUpVal(U, head, slot) ==
    LET w == findWalk(U, NULL, head, slot)
        new == Len(U) + 1
        U1 == Append(U, [UpValCreate(slot) EXCEPT !.openNext = w.cur])
    IN  IF w.found THEN [U |-> U, head |-> head, uv |-> w.cur]
        ELSE IF w.prev = NULL THEN [U |-> U1, head |-> new, uv |-> new]
        ELSE [U |-> [U1 EXCEPT ![w.prev].openNext = new], head |-> head, uv |-> new]

\* closeUpvalues that closes without unlinking and keeps the slot address
RECURSIVE closeUpvaluesKeep(_, _, _, _)
closeUpvaluesKeep(S, U, head, level) ==
    IF head # NULL /\ U[head].stackSlot >= level
    THEN IF U[head].state # "Open" THEN [U |-> U, head |-> head, status |-> "abort"]
         ELSE closeUpvaluesKeep(S,
                [U EXCEPT ![head].closed = UpValGet(S, U, head),
                          ![head].val = SelfPtr,
                          ![head].state = "Closed",
                          ![head].closes = @ + 1],
                head, level)
    ELSE [U |-> U, head |-> head, status |-> "ok"]

\* the upvalues from cur on at or above level closed in place: value
\* copied, state Closed, still linked and still naming their stack slot
RECURSIVE closeInPlace(_, _, _, _)
closeInPlace(S, U, cur, level) ==
    IF cur # NULL /\ U[cur].stackSlot >= level /\ U[cur].state = "Open"
    THEN closeInPlace(S,
            [U EXCEPT ![cur].closed = UpValGet(S, U, cur),
                      ![cur].val = SelfPtr,
                      ![cur].state = "Closed",
                      ![cur].closes = @ + 1],
            U[cur].openNext, level)
    ELSE U

\* closeUpvalues that closes the upvalues but leaves them on the open list
closeUpvaluesNoUnlink(S, U, head, level) ==
    [U |-> closeInPlace(S, U, head, level), head |-> head, status |-> "ok"]

\* closeUpvalues that leaves the upvalue of the slot at level itself open
RECURSIVE closeUpvaluesAbove(_, _, _, _)
closeUpvaluesAbove(S, U, head, level) ==
    IF head # NULL /\ U[head].stackSlot > level
    THEN LET c == UpValClose(S, U, head)
         IN  IF c.status = "abort" THEN [U |-> c.U, head |-> U[head].openNext, status |-> "abort"]
             ELSE closeUpvaluesAbove(S, [c.U EXCEPT ![head].openNext = NULL],
                                     U[head].openNext, level)
    ELSE [U |-> U, head |-> head, status |-> "ok"]

\* closeUpvalues(openList, level): [U, head, status]
RECURSIVE closeUpvalues(_, _, _, _)
closeUpvalues(S, U, head, level) ==
    IF head # NULL /\ U[head].stackSlot >= level
    THEN LET c == UpValClose(S, U, head)
         IN  IF c.status = "abort" THEN [U |-> c.U, head |-> U[head].openNext, status |-> "abort"]
             ELSE closeUpvalues(S, [c.U EXCEPT ![head].openNext = NULL],
                                U[head].openNext, level)
    ELSE [U |-> U, head |-> head, status |-> "ok"]

\* Upvalue descriptors of the protos the program instantiates
Desc(instack, idx) == [instack |-> instack, idx |-> idx]
Protos ==
    { <<Desc(1, 0)>>, <<Desc(1, 1)>>, <<Desc(0, 0)>>, <<Desc(1, 0), Desc(0, 0)>> }

\* a capture loop that fills only the instack slots and leaves the others
\* as LuaClosure::create zeroed them
RECURSIVE captureFromInstackOnly(_, _, _, _, _, _, _, _)
captureFromInstackOnly(U, head, C, descs, enclosing, base, i, ups) ==
    IF i > Len(descs) THEN [U |-> U, head |-> head, ups |-> ups, status |-> "ok"]
    ELSE IF descs[i].instack = 1
    THEN LET f == findOrCreateUpVal(U, head, base + descs[i].idx)
         IN  captureFromInstackOnly([f.U EXCEPT ![f.uv].refcount = @ + 1], f.head, C,
                                    descs, enclosing, base, i + 1, Append(ups, f.uv))
    ELSE IF enclosing = NULL \/ descs[i].idx >= C[enclosing].numUpvalues
    THEN [U |-> U, head |-> head, ups |-> ups, status |-> "abort"]
    ELSE captureFromInstackOnly(U, head, C, descs, enclosing, base, i + 1,
                                Append(ups, NULL))

\* the capture loop of instantiateClosure from descriptor i on:
\* [U, head, ups, status]
RECURSIVE captureFrom(_, _, _, _, _, _, _, _)
captureFrom(U, head, C, descs, enclosing, base, i, ups) ==
    IF i > Len(descs) THEN [U |-> U, head |-> head, ups |-> ups, status |-> "ok"]
    ELSE IF descs[i].instack = 1
    THEN LET f == findOrCreateUpVal(U, head, base + descs[i].idx)
         IN  captureFrom([f.U EXCEPT ![f.uv].refcount = @ + 1], f.head, C, descs,
                         enclosing, base, i + 1, Append(ups, f.uv))
    ELSE IF enclosing = NULL \/ descs[i].idx >= C[enclosing].numUpvalues
    THEN [U |-> U, head |-> head, ups |-> ups, status |-> "abort"]
    ELSE LET uv == C[enclosing].upvals[descs[i].idx + 1]
         IN  captureFrom([U EXCEPT ![uv].refcount = @ + 1], head, C, descs,
                         enclosing, base, i + 1, Append(ups, uv))

\* instantiateClosure(proto, enclosing, stack, openList): [U, head, C, cl, status]
instantiateClosure(U, head, C, descs, enclosing, base) ==
    LET r == captureFrom(U, head, C, descs, enclosing, base, 1, <<>>)
        cl == [numUpvalues |-> Len(descs), upvals |-> r.ups, alive |-> TRUE]
    IN  [U |-> r.U, head |-> r.head, C |-> Append(C, cl), cl |-> Len(C) + 1,
         status |-> r.status]

\* LuaClosure::releaseUpVal on every held slot, in order
RECURSIVE releaseFrom(_, _, _)
releaseFrom(U, ups, i) ==
    IF i > Len(ups) THEN U
    ELSE releaseFrom([U EXCEPT ![ups[i]].refcount = @ - 1,
                               ![ups[i]].freed = (U[ups[i]].refcount - 1 = 0)],
                     ups, i + 1)

\* LuaClosure::getUpval / setUpval
getUpval(S, U, C, c, i) == UpValGet(S, U, C[c].upvals[i + 1])
setUpval(S, U, C, c, i, v) == UpValSet(S, U, C[c].upvals[i + 1], v)

AliveClosures == {c \in 1..Len(cls) : cls[c].alive}
UpvalSlots == {<<c, i>> \in (1..MaxObjects) \X (0..1) :
                  c \in AliveClosures /\ i < cls[c].numUpvalues}

FindOrCreate(slot) ==
    /\ ustatus = "ok"
    /\ LET f == findOrCreateUpVal(upv, openList, slot)
       IN  /\ Len(f.U) + Len(cls) <= MaxObjects
           /\ upv' = f.U
           /\ openList' = f.head
           /\ ulast' = UCall("find", f.uv)
    /\ UNCHANGED <<stack, cls, ustatus, tvars>>

Instantiate(descs, enclosing, base) ==
    /\ ustatus = "ok"
    /\ \A i \in 1..Len(descs) : descs[i].instack = 1 => base + descs[i].idx <= StackSize
    /\ LET r == instantiateClosure(upv, openList, cls, descs, enclosing, base)
       IN  /\ Len(r.U) + Len(r.C) <= MaxObjects
           /\ upv' = r.U
           /\ openList' = r.head
           /\ cls' = r.C
           /\ ustatus' = r.status
           /\ ulast' = UCall("closure", r.cl)
    /\ UNCHANGED <<stack, tvars>>

CloseUpvalues(level) ==
    /\ ustatus = "ok"
    /\ \E r \in {closeUpvalues(stack, upv, openList, level)} :
           /\ upv' = r.U
           /\ openList' = r.head
           /\ ustatus' = r.status
           /\ ulast' = UCall("closeUpvalues",
                             Cardinality({u \in 1..Len(upv) : r.U[u].closes > upv[u].closes}))
    /\ UNCHANGED <<stack, cls, tvars>>

SetUpval(c, i, v) ==
    /\ ustatus = "ok"
    /\ <<c, i>> \in UpvalSlots
    /\ LET r == setUpval(stack, upv, cls, c, i, v)
       IN  /\ stack' = r.S
           /\ upv' = r.U
    /\ ulast' = UCall("setUpval", cls[c].upvals[i + 1])
    /\ UNCHANGED <<openList, cls, ustatus, tvars>>

\* the running frame assigns its own local variable
StackWrite(slot, v) ==
    /\ ustatus = "ok"
    /\ stack' = [stack EXCEPT ![slot] = v]
    /\ ulast' = UCall("stackWrite", 0)
    /\ UNCHANGED <<upv, openList, cls, ustatus, tvars>>

Destroy(c) ==
    /\ ustatus = "ok"
    /\ c \in AliveClosures
    /\ upv' = releaseFrom(upv, cls[c].upvals, 1)
    /\ cls' = [cls EXCEPT ![c].alive = FALSE]
    /\ ulast' = UCall("destroy", 0)
    /\ UNCHANGED <<stack, openList, ustatus, tvars>>

\* the host calls UpVal::close() on an upvalue it holds
ExplicitClose(u) ==
    /\ ustatus = "ok"
    /\ u \in 1..Len(upv)
    /\ LET r == UpValClose(stack, upv, u)
       IN  /\ upv' = r.U
           /\ ustatus' = r.status
    /\ ulast' = UCall("close", u)
    /\ UNCHANGED <<stack, openList, cls, tvars>>

NextUp ==
    \/ \E slot \in 1..StackSize : FindOrCreate(slot)
    \/ \E descs \in Protos, enclosing \in {NULL} \cup AliveClosures, base \in 1..StackSize :
          Instantiate(descs, enclosing, base)
    \/ \E level \in 1..StackSize : CloseUpvalues(level)
    \/ \E c \in 1..MaxObjects, i \in 0..1, v \in UVals : SetUpval(c, i, v)
    \/ \E slot \in 1..StackSize, v \in UVals : StackWrite(slot, v)
    \/ \E c \in 1..MaxObjects : Destroy(c)

SpecUp == InitTable /\ [][NextUp]_vars

NextUpClose == NextUp \/ \E u \in 1..MaxObjects : ExplicitClose(u)

SpecUpClose == InitTable /\ [][NextUpClose]_vars

(***************************************************************************)
(* Claims about the table                                                  *)
(***************************************************************************)
\* key is stored with a non-nil value, in the array part or in a live hash slot
Present(T, key) ==
    \/ isInteger(key) /\ inArray(T, key.i) /\ ~isNil(T.array[key.i])
    \/ \E s \in 1..T.hash.capacity :
          T.hash.ctrl[s] >= 0 /\ TValueEq(T.hash.keys[s], key) /\ ~isNil(T.hash.vals[s])

\* C1: after set(k, v_k) for k = 1..n in increasing order on a fresh table,
\* get(k) returns v_k for every k in 1..n, length() returns n, and the array
\* part has grown past 16 slots once key 17 is in.
C1_SeqFill ==
    /\ tstatus = "ok"
    /\ \A k \in 1..drv.cursor : get(tbl, k) = drv.written[k]
    /\ length(tbl) = drv.cursor
    /\ (drv.cursor >= GroupWidth + 1 => tbl.arraySize > MinCapacity)

\* 20 keys are in, the array has grown to 32 slots, keys 5 and 15 read back
C1_Witness ==
    /\ drv.cursor = 20
    /\ tbl.arraySize = 2 * MinCapacity
    /\ length(tbl) = 20
    /\ get(tbl, 5) = drv.written[5] /\ get(tbl, 15) = Integer(115)

\* C2 (as claimed): rawget(k) right after rawset(k, v) returns a value equal
\* to v, for every non-nil integer, float or string key and every value.
C2_RoundTrip ==
    (tlast.op \in {"rawset"} /\ ~isNil(tlast.key))
        => (tstatus = "ok" /\ TValueEq(rawget(tbl, tlast.key), tlast.val))

\* C3 (as claimed): a key that is not present reads Nil, and after set(k, v)
\* followed by set(k, Nil) the key reads Nil again.
C3_AbsentReadsNil ==
    tstatus = "ok" =>
        \A k \in 1..(MaxFill + 1) :
            /\ (~Present(tbl, Integer(k)) => get(tbl, k) = Nil)
            /\ LET r1 == set(tbl, k, V1)
                   r2 == set(r1.T, k, Nil)
               IN  r1.status = "ok" /\ r2.status = "ok" => get(r2.T, k) = Nil

\* C4: after any sequence of inserts count <= capacity * 7/8, and an insert
\* that adds a key when the bound is already met first rebuilds the hash part
\* at double capacity (16 slots when there was no hash part yet).
C4_LoadFactor ==
    /\ [](tbl.hash.count >= 0 /\ tbl.hash.count <= (tbl.hash.capacity * 7) \div 8)
    /\ [][(tbl'.hash.count = tbl.hash.count + 1
             /\ tbl.hash.count + 1 > (tbl.hash.capacity * 7) \div 8)
          => tbl'.hash.capacity =
                IF tbl.hash.capacity = 0 THEN MinCapacity ELSE 2 * tbl.hash.capacity]_vars

\* the hash part has been rebuilt at 32 slots and holds more than 14 keys
C4_Witness ==
    /\ tbl.hash.capacity = 2 * MinCapacity
    /\ tbl.hash.count > (MinCapacity * 7) \div 8

\* C5 (as claimed): a write with the float key Number(i), i in [1, arraySize],
\* through rawset or through operator[](double), stores into array slot i-1
\* and is read back by get(i); a write with Integer(i) is read back with
\* Number(i).
C5_FloatKeySameSlot ==
    /\ (/\ tlast.op \in {"rawset", "index"}
        /\ isNumber(tlast.key) /\ isExactInt(tlast.key.i)
        /\ inArray(tbl, toInt32(tlast.key.i)))
       => /\ tbl.array[toInt32(tlast.key.i)] = tlast.val
          /\ get(tbl, toInt32(tlast.key.i)) = tlast.val
    /\ (tlast.op = "rawset" /\ isInteger(tlast.key) /\ inArray(tbl, tlast.key.i))
       => rawget(tbl, Number(2 * tlast.key.i)) = tlast.val

\* C10 (as claimed): rawget and rawset with a Nil key are both rejected and
\* leave the table unchanged.
C10_NilKeyRejected ==
    (tlast.op \in {"rawget", "rawset"} /\ isNil(tlast.key)) => tstatus = "abort"

\* C11: a read (rawget, get, or operator[] converted to a TValue) of a
\* present or an absent key leaves arraySize, arrayCount, the hash capacity
\* and count, every control byte and every stored key and value unchanged.
C11_ReadsNoSideEffects ==
    [][tlast'.op \in {"rawget", "read"} => tbl' = tbl]_vars

\* operator[] read an absent string key from a table with a hash part
C11_Witness ==
    /\ tlast.op = "read"
    /\ tstatus = "ok"
    /\ isString(tlast.key)
    /\ tlast.res = Nil
    /\ tbl.hash.capacity > 0
    /\ \A s \in 1..tbl.hash.capacity : ~isString(tbl.hash.keys[s])

\* C12 (as claimed): rawset(k, Nil) for a key k that is not present leaves
\* the table unchanged: no hash slot becomes occupied, and the hash count and
\* capacity, arraySize and arrayCount keep their values.
C12_NilWriteAbsentNoChange ==
    [][(/\ tlast'.op = "rawset"
        /\ tstatus' = "ok"
        /\ isNil(tlast'.val)
        /\ ~isNil(tlast'.key)
        /\ ~Present(tbl, normKey(tlast'.key))) => tbl' = tbl]_vars

\* C13: a == b implies hashTValue(a) = hashTValue(b); == is true for
\* identical bits, true for two strings exactly when their contents are
\* byte-identical, false otherwise; two equal strings at different addresses
\* hash alike and find the same hash slot.
C13_EqImpliesHashEq ==
    tlast.op = "eq" =>
        LET a == tlast.key
            b == tlast.val
        IN  /\ tlast.res = Boolean(TRUE) => tlast.ha = tlast.hb
            /\ a = b => tlast.res = Boolean(TRUE)
            /\ (isString(a) /\ isString(b))
                  => tlast.res = Boolean(StrMem[a.i] = StrMem[b.i])
            /\ (a # b /\ ~(isString(a) /\ isString(b))) => tlast.res = Boolean(FALSE)
            /\ (tlast.res = Boolean(TRUE) /\ ~isNil(a))
                  => /\ find(tbl.hash, normKey(b)) = find(tbl.hash, normKey(a))
                     /\ rawget(tbl, b) = V1

\* the strings at addresses 1 and 4 (both "a") compared equal
C13_Witness ==
    /\ tlast.op = "eq"
    /\ tlast.key = String(1) /\ tlast.val = String(4)
    /\ tlast.res = Boolean(TRUE)
    /\ tlast.ha = tlast.hb
    /\ find(tbl.hash, String(4)) # NoSlot

\* C14 (as claimed): on every table reachable by rawset calls length()
\* returns a border n: n = 0 or get(n) is non-nil, and get(n + 1) is Nil.
C14_LengthIsBorder ==
    tlast.op = "length" =>
        /\ tstatus = "ok"
        /\ tlast.res # NoReturn
        /\ (tlast.res.i = 0 \/ get(tbl, tlast.res.i) # Nil)
        /\ get(tbl, tlast.res.i + 1) = Nil

\* whenever length() returns, what it returns is a border
C14_BorderWhenReturns ==
    (tlast.op = "length" /\ tstatus = "ok") =>
        /\ (tlast.res.i = 0 \/ get(tbl, tlast.res.i) # Nil)
        /\ get(tbl, tlast.res.i + 1) = Nil

LiveKeys(T) ==
    {Integer(i) : i \in {j \in 1..T.arraySize : ~isNil(T.array[j])}}
        \cup {T.hash.keys[s] : s \in {x \in 1..T.hash.capacity :
                                        T.hash.ctrl[x] >= 0 /\ ~isNil(T.hash.vals[x])}}

\* C15 (as claimed): a traversal with next from key = Nil on an unmodified
\* table returns every key with a non-nil value exactly once, the array
\* elements in increasing index order before the hash elements, and then
\* returns false.
C15_NextTraversal ==
    Traversing =>
        /\ tstatus = "ok"
        /\ \A i, j \in 1..Len(drv.written) :
              i # j => ~TValueEq(drv.written[i], drv.written[j])
        /\ \A i \in 1..Len(drv.written) : drv.written[i] \in LiveKeys(tbl)
        /\ \A i, j \in 1..Len(drv.written) :
              (i < j /\ isInteger(drv.written[j]) /\ inArray(tbl, drv.written[j].i))
                 => (isInteger(drv.written[i]) /\ drv.written[i].i < drv.written[j].i)
        /\ tlast.res = Boolean(FALSE)
              => {drv.written[i] : i \in 1..Len(drv.written)} = LiveKeys(tbl)

\* the non-nil value stored in metatable t under a key with the contents of
\* name, Nil when there is none (or no metatable)
HandlerIn(t, name) ==
    IF meta[t] = NoTable THEN Nil
    ELSE LET hits == {s \in 1..meta[t].hash.capacity :
                        /\ meta[t].hash.ctrl[s] >= 0
                        /\ isString(meta[t].hash.keys[s])
                        /\ StrMem[meta[t].hash.keys[s].i] = StrMem[name]
                        /\ ~isNil(meta[t].hash.vals[s])}
         IN  IF hits = {} THEN Nil ELSE meta[t].hash.vals[SetMin(hits)]

\* C16: for +, -, *, / with at least one table operand the handler is the
\* raw entry under the operator's key in the first operand's metatable and,
\* only when there is none, in the second operand's; it is called with the
\* two operands in their order and its result is the operator's result.
C16_MetamethodDispatch ==
    (tlast.op \in Ops /\ (isTable(tlast.key) \/ isTable(tlast.val))) =>
        LET a == tlast.key
            b == tlast.val
            ha == IF isTable(a) THEN HandlerIn(a.i, OpName(tlast.op)) ELSE Nil
            hb == IF isTable(b) THEN HandlerIn(b.i, OpName(tlast.op)) ELSE Nil
        IN  /\ ~isNil(ha) => tlast.res = TV("ret", <<ha.i, a, b>>)
            /\ (isNil(ha) /\ ~isNil(hb)) => tlast.res = TV("ret", <<hb.i, a, b>>)
            /\ (isNil(ha) /\ isNil(hb)) => tlast.res.tag = "num"

\* both operands are tables with an "__add" handler, stored under another
\* address than the operator's literal, and the first operand's one was used
C16_Witness ==
    /\ tlast.op = "+"
    /\ tlast.key = Table(2) /\ tlast.val = Table(1)
    /\ HandlerIn(1, 5) = Function(1) /\ HandlerIn(2, 5) = Function(2)
    /\ tlast.res = TV("ret", <<2, Table(2), Table(1)>>)

\* C17: after any rawset calls, arrayCount is the number of non-nil slots of
\* the array buffer.
C17_ArrayCountExact ==
    tbl.arrayCount = Cardinality({i \in 1..tbl.arraySize : ~isNil(tbl.array[i])})

\* C18: no full hash slot with a non-nil value holds an integer key k with
\* 1 <= k <= arraySize.
C18_ArrayKeysNotInHash ==
    \A s \in 1..tbl.hash.capacity :
        (/\ tbl.hash.ctrl[s] >= 0
         /\ ~isNil(tbl.hash.vals[s])
         /\ isInteger(tbl.hash.keys[s])) =>
            ~(1 <= tbl.hash.keys[s].i /\ tbl.hash.keys[s].i <= tbl.arraySize)

\* the full hash slot that holds key with a non-nil value, NoSlot if none
LiveSlot(T, key) ==
    LET hits == {s \in 1..T.hash.capacity :
                    /\ T.hash.ctrl[s] >= 0
                    /\ T.hash.keys[s] = key
                    /\ ~isNil(T.hash.vals[s])}
    IN  IF hits = {} THEN NoSlot ELSE SetMin(hits)

\* C19: a nil write to a key held in the hash part with a non-nil value
\* marks its control byte Deleted and takes one off the hash count; the hash
\* count is always the number of full hash slots with a non-nil value, and
\* never below zero.
C19_NilWriteTombstones ==
    /\ [](/\ tbl.hash.count >= 0
          /\ tbl.hash.count = Cardinality({s \in 1..tbl.hash.capacity :
                                  tbl.hash.ctrl[s] >= 0 /\ ~isNil(tbl.hash.vals[s])}))
    /\ [][(/\ tlast'.op = "rawset"
           /\ isNil(tlast'.val)
           /\ tstatus' = "ok"
           /\ LiveSlot(tbl, normKey(tlast'.key)) # NoSlot
           /\ tbl'.hash.capacity = tbl.hash.capacity)
          => (/\ tbl'.hash.ctrl[LiveSlot(tbl, normKey(tlast'.key))] = CTRL_DELETED
              /\ tbl'.hash.count = tbl.hash.count - 1)]_vars

\* C20: a table with a hash part always has a control byte that is Empty,
\* and no rawset, rawget or length call fails to return.
C20_ProbesTerminate ==
    /\ tstatus # "hang"
    /\ tlast.res # NoReturn
    /\ tbl.hash.capacity > 0 =>
          \E s \in 1..tbl.hash.capacity : tbl.hash.ctrl[s] = CTRL_EMPTY

\* C21: rawset of the integer key arraySize + 1 with a non-nil value makes
\* the array part the next power of two >= 16 that holds the key, leaves no
\* full hash slot with an integer key inside the new array part, stores the
\* value, and every other key reads back what it read before the call.
C21_GrowthKeepsReads ==
    [][(/\ tlast'.op = "rawset"
        /\ isInteger(tlast'.key)
        /\ tlast'.key.i = tbl.arraySize + 1
        /\ ~isNil(tlast'.val))
       => (/\ tbl'.arraySize = RoundCap(tlast'.key.i)
           /\ tbl'.array[tlast'.key.i] = tlast'.val
           /\ \A s \in 1..tbl'.hash.capacity :
                 (tbl'.hash.ctrl[s] >= 0 /\ isInteger(tbl'.hash.keys[s]))
                    => ~inArray(tbl', tbl'.hash.keys[s].i)
           /\ \A k \in GrowKeys \cup {Integer(2), Number(3)} :
                 normKey(k) # tlast'.key => rawget(tbl', k) = rawget(tbl, k))]_vars

\* the first Empty-or-Deleted slot on the probe chain of key
FirstAvailOnChain(H, key) ==
    LET g0 == h1(H, hashOf(key))
        ds == {d \in 0..(H.numGroups - 1) :
                  matchAvailable(H, (g0 + d) % H.numGroups) # {}}
        g == (g0 + SetMin(ds)) % H.numGroups
    IN  SlotIdx(g, SetMin(matchAvailable(H, g)))

FullSlots(H) == {s \in 1..H.capacity : H.ctrl[s] >= 0}

\* C27: no two full hash slots hold equal keys; a rawset that reaches the
\* hash part with a key held by a full slot changes no control byte and no
\* key, and one with a new key (no rebuild, no array growth) fills exactly
\* the first Empty-or-Deleted slot of the key's probe chain.
C27_NoDuplicateKeys ==
    /\ [](\A s \in FullSlots(tbl.hash), t \in FullSlots(tbl.hash) :
            s # t => ~TValueEq(tbl.hash.keys[s], tbl.hash.keys[t]))
    /\ [][(/\ tlast'.op = "rawset"
           /\ tstatus' = "ok"
           /\ tbl'.hash.capacity = tbl.hash.capacity
           /\ tbl'.arraySize = tbl.arraySize
           /\ ~(isInteger(tlast'.key) /\ inArray(tbl, tlast'.key.i)))
          => LET k == normKey(tlast'.key)
                 held == {s \in FullSlots(tbl.hash) : TValueEq(tbl.hash.keys[s], k)}
             IN  IF held # {}
                 THEN /\ tbl'.hash.ctrl = tbl.hash.ctrl
                      /\ tbl'.hash.keys = tbl.hash.keys
                      /\ \A s \in held : tbl'.hash.vals[s] = tlast'.val
                 ELSE /\ FullSlots(tbl'.hash)
                            = FullSlots(tbl.hash) \cup {FirstAvailOnChain(tbl.hash, k)}
                      /\ tbl'.hash.keys[FirstAvailOnChain(tbl.hash, k)] = k]_vars

\* "a" is stored under one address and was just written through an equal
\* string at another address; one slot holds it, after a slot freed by an
\* array growth
C27_Witness ==
    /\ tlast = Call("rawset", String(4), V1, Nil)
    /\ \E s \in FullSlots(tbl.hash) :
          /\ tbl.hash.keys[s] = String(1)
          /\ tbl.hash.vals[s] = V1
          /\ FullSlots(tbl.hash) = {s}
    /\ \E d \in 1..tbl.hash.capacity : tbl.hash.ctrl[d] = CTRL_DELETED

\* C28: (a != b) is the negation of (a == b) for every pair of values; two
\* strings of equal content at different addresses are not !=.
C28_NeIsNotEq ==
    tlast.op = "eq" => (tlast.ne = Boolean(TRUE) <=> tlast.res = Boolean(FALSE))

\* TableSlotProxy::operator TValue for the proxy {T, key}: the value read
\* through rawfind
slotRead(T, key) ==
    LET p == rawfind(T, key)
    IN  CASE p.loc = "array" -> T.array[p.i]
          [] p.loc = "hash" -> T.hash.vals[p.i]
          [] p.loc = "hang" -> NoReturn
          [] OTHER -> Nil

\* C29: in every table state reached by rawset calls, the value read through
\* a TableSlotProxy (rawfind) equals the value rawget returns, for integer,
\* exact-integer float, other float and string keys.
C29_ReadPathsAgree ==
    tstatus = "ok" =>
        \A k \in GrowKeys \cup {Integer(2), Number(3)} :
            slotRead(tbl, k) = rawget(tbl, k)

(***************************************************************************)
(* Claims about closures and upvalues                                      *)
(***************************************************************************)
OpenAt(U, slot) ==
    {u \in 1..Len(U) : U[u].state = "Open" /\ U[u].stackSlot = slot}

Sharers(u) == {p \in UpvalSlots : cls[p[1]].upvals[p[2] + 1] = u}

\* C6: while a stack slot has an Open upvalue, findOrCreateUpVal for that slot
\* and every instack=1 capture of it return that same upvalue, and no second
\* Open upvalue for the slot ever exists.
C6_OneUpValPerOpenSlot ==
    /\ [](\A slot \in 1..StackSize : Cardinality(OpenAt(upv, slot)) <= 1)
    /\ [][\A slot \in 1..StackSize : \A u \in OpenAt(upv, slot) :
            FindOrCreate(slot) => (ulast'.res = u /\ Len(upv') = Len(upv))]_vars
    /\ [][\A descs \in Protos, enclosing \in {NULL} \cup AliveClosures,
             base \in 1..StackSize :
            (Instantiate(descs, enclosing, base) /\ ustatus' = "ok") =>
                \A i \in 1..Len(descs) :
                    descs[i].instack = 1 =>
                        \A u \in OpenAt(upv, base + descs[i].idx) :
                            cls'[ulast'.res].upvals[i] = u]_vars

\* a find returned an Open upvalue that a closure had already captured
C6_Witness ==
    /\ ulast.op = "find"
    /\ ustatus = "ok"
    /\ upv[ulast.res].state = "Open"
    /\ upv[ulast.res].refcount >= 2

\* C7: closures sharing an upvalue read the same value: a setUpval through
\* one of them (frame open or closed) and a write of the captured variable
\* are read back by every sharer, and closeUpvalues leaves every closure
\* reading the value the variable held just before the close.
C7_SharedReads ==
    /\ [][\A c \in 1..MaxObjects, i \in 0..1, v \in UVals :
            SetUpval(c, i, v) =>
                \A p \in Sharers(cls[c].upvals[i + 1]) :
                    getUpval(stack', upv', cls', p[1], p[2]) = v]_vars
    /\ [][\A slot \in 1..StackSize, v \in UVals :
            StackWrite(slot, v) =>
                \A u \in OpenAt(upv, slot) : \A p \in Sharers(u) :
                    getUpval(stack', upv', cls', p[1], p[2]) = v]_vars
    /\ [][\A level \in 1..StackSize :
            CloseUpvalues(level) =>
                \A p \in UpvalSlots :
                    LET u == cls[p[1]].upvals[p[2] + 1]
                    IN  /\ getUpval(stack', upv', cls', p[1], p[2])
                             = getUpval(stack, upv, cls, p[1], p[2])
                        /\ (upv[u].state = "Open" /\ upv[u].stackSlot >= level)
                             => /\ upv'[u].state = "Closed"
                                /\ getUpval(stack', upv', cls', p[1], p[2])
                                     = stack[upv[u].stackSlot]]_vars

\* two live closures share a Closed upvalue that was just written through
\* one of them, and the stack slot it came from holds something else
C7_Witness ==
    /\ ulast.op = "setUpval"
    /\ upv[ulast.res].state = "Closed"
    /\ Cardinality({p[1] : p \in Sharers(ulast.res)}) >= 2
    /\ upv[ulast.res].closed = Integer(1)
    /\ \A s \in 1..StackSize : stack[s] = Nil

\* C8: an explicit close() on an upvalue that is already Closed fails its
\* assertion and changes neither the upvalue nor the stack.
C8_SecondCloseRejected ==
    [][\A u \in 1..MaxObjects :
        (u <= Len(upv) /\ upv[u].state = "Closed" /\ ExplicitClose(u)) =>
            (ustatus' = "abort" /\ upv' = upv /\ stack' = stack)]_vars

\* close() was called on an upvalue that had been closed before
C8_Witness ==
    /\ ulast.op = "close"
    /\ ustatus = "abort"
    /\ upv[ulast.res].state = "Closed"
    /\ upv[ulast.res].closes = 1

\* C9: a Closed upvalue never becomes Open again, every upvalue is closed at
\* most once, and closeUpvalues never fails the Open assertion of close().
C9_OpenToClosedOnce ==
    /\ [][\A u \in 1..Len(upv) :
            upv[u].state = "Closed" =>
                (upv'[u].state = "Closed" /\ upv'[u].closes = upv[u].closes)]_vars
    /\ [](\A u \in 1..Len(upv) :
            /\ upv[u].closes <= 1
            /\ (upv[u].closes = 1) <=> (upv[u].state = "Closed"))
    /\ [](ulast.op = "closeUpvalues" => ustatus = "ok")

\* closeUpvalues ran with one upvalue already Closed and closed another
C9_Witness ==
    /\ ulast.op = "closeUpvalues"
    /\ ustatus = "ok"
    /\ openList = NULL
    /\ Cardinality({u \in 1..Len(upv) : upv[u].state = "Closed"}) >= 2
    /\ \E c \in 1..Len(cls) : ~cls[c].alive

\* the upvalues linked from head through openNext, in list order
RECURSIVE ListFrom(_, _, _)
ListFrom(U, cur, fuel) ==
    IF cur = NULL \/ fuel = 0 THEN <<>>
    ELSE <<cur>> \o ListFrom(U, U[cur].openNext, fuel - 1)

OpenListSeq == ListFrom(upv, openList, Len(upv) + 1)

RECURSIVE BelowLevel(_, _, _)
BelowLevel(U, L, level) ==
    IF L = <<>> THEN <<>>
    ELSE (IF U[Head(L)].stackSlot < level THEN <<Head(L)>> ELSE <<>>)
            \o BelowLevel(U, Tail(L), level)

\* C23: closeUpvalues(openList, level) closes exactly the listed upvalues
\* whose slot is at or above level, each with the value of its stack slot, and
\* unlinks them; the listed upvalues below level are unchanged (Open, aliasing
\* their slot) and stay listed in the same order; nothing else changes.
C23_ClosesExactlyAtOrAbove ==
    [][\A level \in 1..StackSize :
          (CloseUpvalues(level) /\ ustatus' = "ok") =>
              LET L == OpenListSeq
                  listed == {L[i] : i \in 1..Len(L)}
              IN  /\ ListFrom(upv', openList', Len(upv') + 1) = BelowLevel(upv, L, level)
                  /\ \A u \in 1..Len(upv) :
                        IF u \in listed /\ upv[u].stackSlot >= level
                        THEN /\ upv'[u].state = "Closed"
                             /\ upv'[u].val = SelfPtr
                             /\ upv'[u].closed = stack[upv[u].stackSlot]
                             /\ upv'[u].openNext = NULL
                        ELSE upv'[u] = upv[u]
                  /\ \A u \in listed :
                        upv[u].stackSlot < level =>
                            /\ upv'[u].state = "Open"
                            /\ UpValGet(stack', upv', u) = stack'[upv[u].stackSlot]]_vars

\* closeUpvalues closed one upvalue, holding a non-nil value, and left a
\* lower one open in the list
C23_Witness ==
    /\ ulast = UCall("closeUpvalues", 1)
    /\ Len(OpenListSeq) = 1
    /\ \E u \in 1..Len(upv) :
          /\ upv[u].state = "Closed"
          /\ upv[u].closed = Integer(1)
          /\ upv[openList].refcount >= 2

\* C24: an upvalue that becomes Closed reads the value its stack slot held
\* at that moment; afterwards the value read through it changes only by a
\* write through that upvalue, whatever is written to the stack, and a write
\* through a Closed upvalue leaves the stack unchanged.
C24_ClosedSelfContained ==
    [][\A u \in 1..Len(upv) :
          /\ (upv[u].state = "Open" /\ upv'[u].state = "Closed") =>
                UpValGet(stack', upv', u) = stack[upv[u].stackSlot]
          /\ (upv[u].state = "Closed" /\ ulast' # UCall("setUpval", u)) =>
                UpValGet(stack', upv', u) = UpValGet(stack, upv, u)
          /\ (upv[u].state = "Closed" /\ ulast' = UCall("setUpval", u)) =>
                stack' = stack]_vars

\* an upvalue closed with the value 1 still reads 1 after the frame has
\* overwritten the stack (no closure exists that could have written it)
C24_Witness ==
    /\ ulast.op = "stackWrite"
    /\ cls = <<>>
    /\ \A slot \in 1..StackSize : stack[slot] = Nil
    /\ \E u \in 1..Len(upv) :
          upv[u].state = "Closed" /\ UpValGet(stack, upv, u) = Integer(1)

\* C25: a closure that instantiateClosure returns holds, in each of its
\* numUpvalues slots, a non-null upvalue: for instack = 1 the Open upvalue of
\* stack slot base + idx, the existing one if there was one; for instack = 0
\* the very upvalue in slot idx of the enclosing closure, Open or Closed.
C25_CaptureSharesUpVal ==
    [][\A descs \in Protos, enclosing \in {NULL} \cup AliveClosures, base \in 1..StackSize :
          (Instantiate(descs, enclosing, base) /\ ustatus' = "ok") =>
              LET cl == cls'[ulast'.res]
              IN  /\ cl.numUpvalues = Len(descs)
                  /\ Len(cl.upvals) = Len(descs)
                  /\ \A i \in 1..Len(descs) :
                        /\ cl.upvals[i] \in 1..Len(upv')
                        /\ descs[i].instack = 1 =>
                              /\ upv'[cl.upvals[i]].state = "Open"
                              /\ upv'[cl.upvals[i]].stackSlot = base + descs[i].idx
                              /\ OpenAt(upv, base + descs[i].idx) \subseteq {cl.upvals[i]}
                        /\ descs[i].instack = 0 =>
                              cl.upvals[i] = cls[enclosing].upvals[descs[i].idx + 1]]_vars

\* a closure was instantiated inside another one and holds the enclosing
\* closure's upvalue, which is already Closed
C25_Witness ==
    /\ ulast = UCall("closure", 2)
    /\ ustatus = "ok"
    /\ cls[2].upvals = <<cls[1].upvals[1]>>
    /\ upv[cls[1].upvals[1]].state = "Closed"
    /\ upv[cls[1].upvals[1]].refcount = 3
    /\ Len(upv) = 1

\* the closures, destroyed or not, that were given upvalue u at capture
Holders(u) == {c \in 1..Len(cls) : \E i \in 1..Len(cls[c].upvals) : cls[c].upvals[i] = u}

\* C26: an upvalue is freed exactly when its refcount is zero; it is not
\* freed while a live closure holds it; and once every closure that captured it
\* has been destroyed and it is Closed, it has been freed.
C26_RefcountFrees ==
    \A u \in 1..Len(upv) :
        /\ upv[u].freed <=> upv[u].refcount = 0
        /\ upv[u].freed => \A c \in Holders(u) : ~cls[c].alive
        /\ (/\ Holders(u) # {}
            /\ \A c \in Holders(u) : ~cls[c].alive
            /\ upv[u].state = "Closed") => upv[u].freed

\* C30: findOrCreateUpVal never hands out a Closed upvalue: the upvalue it
\* returns for a slot is Open on that slot and is none of the upvalues that
\* closeUpvalues closed before (so not the one closed for the same slot); and
\* a Closed upvalue keeps its value through every later write to the stack
\* slot and every write through another upvalue.
C30_ClosedNotReused ==
    [][/\ \A slot \in 1..StackSize :
             FindOrCreate(slot) =>
                /\ upv'[ulast'.res].state = "Open"
                /\ upv'[ulast'.res].stackSlot = slot
                /\ \A u \in 1..Len(upv) :
                      upv[u].state = "Closed" =>
                         /\ ulast'.res # u
                         /\ upv'[u] = upv[u]
       /\ \A u \in 1..Len(upv) :
             (/\ upv[u].state = "Closed"
              /\ \/ ulast'.op = "stackWrite"
                 \/ ulast'.op = "setUpval" /\ ulast'.res # u) =>
                 /\ upv'[u].state = "Closed"
                 /\ upv'[u].closed = upv[u].closed
                 /\ UpValGet(stack', upv', u) = UpValGet(stack, upv, u)]_vars

\* slot 1 held 1 when closeUpvalues closed its upvalue; a closure then
\* captured slot 1 again through a second, Open upvalue and wrote nil
\* through it: the stack slot is nil, the Closed upvalue still reads 1
C30_Witness ==
    /\ ulast = UCall("setUpval", 2)
    /\ Len(upv) = 2
    /\ upv[1].state = "Closed"
    /\ UpValGet(stack, upv, 1) = Integer(1)
    /\ upv[2].state = "Open"
    /\ upv[2].stackSlot = 1
    /\ openList = 2
    /\ stack = <<Nil, Nil>>
    /\ UpValGet(stack, upv, 2) = Nil

====
